---- MODULE Spec2Model ----
(***************************************************************************)
(* logtest: a process-wide capture queue for records of the `log` facade.  *)
(*                                                                         *)
(* The model follows src/src/lib.rs.  Text is a sequence of one-character  *)
(* strings, so that rendering (format!, to_string) is a computation on     *)
(* text.  Several threads call the public operations; start() is split    *)
(* between its two statements and a log call at the lock acquisition.      *)
(***************************************************************************)
EXTENDS Integers, Sequences, FiniteSets, TLC

VARIABLES
    logger,     \* the facade's global destination slot (log::set_logger)
    max_level,  \* the facade's global severity threshold (log::set_max_level)
    EVENTS,     \* lib.rs:85  the queue inside the Mutex
    lock,       \* lib.rs:85  holder of the Mutex, or "free"
    poisoned,   \* lib.rs:85  the Mutex's poison flag
    pc,         \* per thread: where it stands inside start() / log()
    cur,        \* per thread: the event being handled and the visitor's pairs
    handles,    \* the Logger values that exist: made by start(), or written as a literal
    last,       \* the step taken last, and what it returned
    appended,   \* history: every record pushed, with its thread and its event
    popped,     \* history: every record returned by pop()/next()
    issued,     \* history: per thread, the events logged once a start() had returned
    ended,      \* history: has a next() signalled the end ("untracked" where not kept)
    installs    \* history: how many set_logger calls succeeded

vars == <<logger, max_level, EVENTS, lock, poisoned, pc, cur, handles, last,
          appended, popped, issued, ended, installs>>

----------------------------------------------------------------------------
(* Bounds of the model *)

MaxLogs == 4
MaxLogsWide == 2
MaxLogsFaulty == 2
MaxLogsIter == 2

Threads == {"t1", "t2"}

----------------------------------------------------------------------------
(* Text *)

hello == <<"h", "e", "l", "l", "o">>
world == <<"w", "o", "r", "l", "d">>
color == <<"c", "o", "l", "o", "r">>
blue  == <<"b", "l", "u", "e">>
app   == <<"a", "p", "p">>
db    == <<"d", "b">>
Quote == <<"\"">>

Digits == <<"0", "1", "2", "3", "4", "5", "6", "7", "8", "9">>

----------------------------------------------------------------------------
(* The facade's levels: log::Level and log::LevelFilter *)

Levels == {"Error", "Warn", "Info", "Debug", "Trace"}

LevelRank(l) ==
    CASE l = "Off"   -> 0
      [] l = "Error" -> 1
      [] l = "Warn"  -> 2
      [] l = "Info"  -> 3
      [] l = "Debug" -> 4
      [] l = "Trace" -> 5

----------------------------------------------------------------------------
(* Rendering *)

\* (a variant that renders an interpolated string as its Debug form, quoted)
DisplayArg_Debug(v) ==
    IF v.kind = "str" THEN Quote \o v.s \o Quote ELSE <<Digits[v.n + 1]>>

\* Display of a value interpolated into the message: a string renders as its
\* characters, an integer as its decimal digit.
DisplayArg(v) ==
    IF v.kind = "str" THEN v.s ELSE <<Digits[v.n + 1]>>

\* format!("{}", record.args()): the literal pieces and the rendered
\* arguments, concatenated in order.
RECURSIVE RenderArgs(_)
RenderArgs(frags) ==
    IF frags = <<>> THEN <<>>
    ELSE LET f == Head(frags)
         IN  (IF f.kind = "lit" THEN f.s ELSE DisplayArg(f)) \o RenderArgs(Tail(frags))

\* val.to_string() of a kv::Value: a captured string renders with its quote
\* marks (tests/smoke.rs:21), an integer as its digit.
ValueToString(v) ==
    IF v.kind = "str" THEN Quote \o v.s \o Quote ELSE <<Digits[v.n + 1]>>

\* format!("{}", key)
KeyToString(k) == k

----------------------------------------------------------------------------
(* The key-value visitor *)

\* (a variant that keeps the pair already held for the key)
MapInsert_KeepFirst(m, k, v) ==
    IF \E p \in m : p[1] = k THEN m ELSE m \cup {<<k, v>>}

\* HashMap::insert: the pair replaces any pair with the same key.
MapInsert(m, k, v) == {p \in m : p[1] # k} \cup {<<k, v>>}

\* Visitor::visit_pair
VisitPair(pairs, kv) ==
    MapInsert(pairs, KeyToString(kv.key), ValueToString(kv.val))

\* (a variant that steps over a failing item and reports success)
RECURSIVE Visit_SkipError(_, _)
Visit_SkipError(kvs, pairs) ==
    IF kvs = <<>> THEN [ok |-> TRUE, pairs |-> pairs]
    ELSE IF Head(kvs).kind = "err" THEN Visit_SkipError(Tail(kvs), pairs)
    ELSE Visit_SkipError(Tail(kvs), VisitPair(pairs, Head(kvs)))

\* Source::visit driving Visitor::visit_pair over the event's pairs; a source
\* whose own iteration fails yields the error.
RECURSIVE Visit(_, _)
Visit(kvs, pairs) ==
    IF kvs = <<>> THEN [ok |-> TRUE, pairs |-> pairs]
    ELSE IF Head(kvs).kind = "err" THEN [ok |-> FALSE, pairs |-> pairs]
    ELSE Visit(Tail(kvs), VisitPair(pairs, Head(kvs)))

----------------------------------------------------------------------------
(* Events of the host program *)

Lit(s) == [kind |-> "lit", s |-> s]
ArgInt(n) == [kind |-> "int", n |-> n]
ArgStr(s) == [kind |-> "str", s |-> s]
Pair(k, v) == [kind |-> "pair", key |-> k, val |-> v]

\* An interpolated value whose Display fails: it panics, or it returns
\* Err and format! panics.
Fail == [kind |-> "fail"]

\* An interpolated value whose Display itself makes a log call.
Relog == [kind |-> "relog"]

\* A key-value source whose iteration reports an error at this point.
KvErr == [kind |-> "err"]

\* A log call: its level, its target, the pieces of its message, its pairs, and
\* (text) the message text the call site means, which a faithful capture shows.
Event(l, tg, frags, kvs, text) ==
    [level |-> l, target |-> tg, args |-> frags, kvs |-> kvs, text |-> text]

\* The first two log calls of tests/smoke.rs (lines 6-7).
SmokeEvents ==
    { Event("Info",  app, <<Lit(hello)>>, <<>>, hello),
      Event("Info",  app, <<Lit(world)>>, <<>>, world) }

\* A call at every level, with interpolated arguments and with pairs
\* (tests/smoke.rs:13 among them).
EventSet ==
    { Event("Info",  app, <<Lit(hello)>>, <<>>, hello),
      Event("Warn",  app, <<Lit(hello)>>, <<Pair(color, ArgStr(blue))>>, hello),
      Event("Error", db,  <<Lit(hello), ArgInt(7)>>, <<>>, hello \o <<"7">>),
      Event("Debug", db,  <<ArgStr(blue), Lit(world)>>, <<>>, blue \o world),
      Event("Trace", db,  <<ArgStr(world)>>,
            <<Pair(color, ArgInt(1)), Pair(color, ArgInt(2))>>, world) }

\* Calls of a host program that breaks the facade's contract: a source of
\* pairs that fails after one pair, a value whose Display fails, a value
\* whose Display logs; and one well-formed call.
FaultyEvents ==
    { Event("Info",  app, <<Lit(hello)>>, <<>>, hello),
      Event("Warn",  app, <<Lit(world)>>, <<Pair(color, ArgStr(blue)), KvErr>>, world),
      Event("Error", db,  <<Lit(hello), Fail>>, <<>>, hello),
      Event("Debug", db,  <<Lit(world), Relog>>, <<>>, world) }

\* How format!("{}", record.args()) ends: the first value whose Display does
\* not simply return text decides.
RECURSIVE RenderOutcome(_)
RenderOutcome(frags) ==
    IF frags = <<>> THEN "ok"
    ELSE IF Head(frags).kind = "fail" THEN "panic"
    ELSE IF Head(frags).kind = "relog" THEN "relog"
    ELSE RenderOutcome(Tail(frags))

----------------------------------------------------------------------------
(* Records and the queue *)

\* lib.rs:118-123  the Record built from an event and the visitor's pairs
MakeRecord(ev, pairs) ==
    [args |-> RenderArgs(ev.args),
     level |-> ev.level,
     target |-> ev.target,
     key_values |-> pairs]

NoRecord == [args |-> <<>>, level |-> "Off", target |-> <<>>, key_values |-> {}]

\* (a variant that pushes at the front)
PushBack_Front(q, r) == <<r>> \o q

\* (a variant in which a push overwrites the record pushed before it)
PushBack_Overwrite(q, r) ==
    IF q = <<>> THEN <<r>> ELSE [q EXCEPT ![Len(q)] = r]

\* VecDeque::push_back
PushBack(q, r) == Append(q, r)

\* (a variant that takes the newest record: pop_back)
PopFront_Back(q) ==
    IF q = <<>> THEN [some |-> FALSE, rec |-> NoRecord, rest |-> q]
    ELSE [some |-> TRUE, rec |-> q[Len(q)], rest |-> SubSeq(q, 1, Len(q) - 1)]

\* (a variant that returns the oldest record and leaves it queued: front)
PopFront_Peek(q) ==
    IF q = <<>> THEN [some |-> FALSE, rec |-> NoRecord, rest |-> q]
    ELSE [some |-> TRUE, rec |-> Head(q), rest |-> q]

\* VecDeque::pop_front: the Option returned and the queue left
PopFront(q) ==
    IF q = <<>> THEN [some |-> FALSE, rec |-> NoRecord, rest |-> q]
    ELSE [some |-> TRUE, rec |-> Head(q), rest |-> Tail(q)]

\* VecDeque::len
QueueLen(q) == Len(q)

\* (a variant that is off by one)
QueueIsEmpty_OffByOne(q) == Len(q) <= 1

\* VecDeque::is_empty
QueueIsEmpty(q) == q = <<>>

----------------------------------------------------------------------------
(* Initial state: nothing installed, threshold Off, the queue empty *)

NoEvent == Event("Off", <<>>, <<>>, <<>>, <<>>)
Idle == [ev |-> NoEvent, pairs |-> {}]

Result(op, res, rec, n) == [op |-> op, res |-> res, rec |-> rec, n |-> n]

Init ==
    /\ logger = "Nop"
    /\ max_level = "Off"
    /\ EVENTS = <<>>
    /\ lock = "free"
    /\ poisoned = FALSE
    /\ pc = [t \in Threads |-> "idle"]
    /\ cur = [t \in Threads |-> Idle]
    /\ handles = {}
    /\ last = Result("init", "ok", NoRecord, 0)
    /\ appended = <<>>
    /\ popped = <<>>
    /\ issued = [t \in Threads |-> <<>>]
    /\ ended = "untracked"
    /\ installs = 0

----------------------------------------------------------------------------
(* The facade: the destination slot and the filter of the log macros *)

\* (a variant that replaces an installed destination: no install-once check)
SetLogger_Replace(slot) == [ok |-> TRUE, slot |-> "LoggerInternal"]

\* (a variant that reports success on an installed slot without touching it)
SetLogger_Skip(slot) ==
    IF slot = "Nop" THEN [ok |-> TRUE, slot |-> "LoggerInternal"]
    ELSE [ok |-> TRUE, slot |-> slot]

\* (a variant whose failure clears the slot)
SetLogger_Uninstall(slot) ==
    IF slot = "Nop" THEN [ok |-> TRUE, slot |-> "LoggerInternal"]
    ELSE [ok |-> FALSE, slot |-> "Nop"]

\* log::set_logger (lib.rs:136): succeeds while the slot is unset, and fails,
\* leaving the slot alone, once a destination is installed.
SetLogger(slot) ==
    IF slot = "Nop" THEN [ok |-> TRUE, slot |-> "LoggerInternal"]
    ELSE [ok |-> FALSE, slot |-> slot]

\* (a variant that sets the threshold to Info)
SetMaxLevel_Info(level) == "Info"

\* log::set_max_level(LevelFilter::Trace) (lib.rs:137)
SetMaxLevel(level) == "Trace"

\* (a variant that accepts Info and the more severe levels only)
SinkEnabled_InfoUp(level, target) == LevelRank(level) <= LevelRank("Info")

\* LoggerInternal::enabled (lib.rs:105-107)
SinkEnabled(level, target) == TRUE

\* The log macros hand a call to the installed destination when its level
\* passes the global threshold; with no destination installed it is discarded.
Dispatches(ev) ==
    /\ LevelRank(ev.level) <= LevelRank(max_level)
    /\ logger = "LoggerInternal"

\* A start() has returned a handle.
Started == "start" \in handles

RECURSIVE TotalIssued(_)
TotalIssued(ts) ==
    IF ts = {} THEN 0
    ELSE LET t == CHOOSE x \in ts : TRUE
         IN  Len(issued[t]) + TotalIssued(ts \ {t})

----------------------------------------------------------------------------
(* Logger::start, lib.rs:135-139, and the free function start, lib.rs:159-161 *)

\* (a variant of start() that empties the queue before it registers)
LoggerStart_ClearFirst(t) ==
    /\ pc[t] = "idle"
    /\ lock = "free"
    /\ EVENTS' = <<>>
    /\ LET r == SetLogger(logger)
       IN  /\ logger' = r.slot
           /\ IF r.ok
              THEN /\ pc' = [pc EXCEPT ![t] = "start_level"]
                   /\ installs' = installs + 1
                   /\ last' = Result("set_logger", "ok", NoRecord, 0)
              ELSE /\ pc' = pc
                   /\ installs' = installs
                   /\ last' = Result("start", "panic", NoRecord, 0)
    /\ UNCHANGED <<max_level, lock, poisoned, cur, handles, appended,
                   popped, issued, ended>>

\* lib.rs:136  set_logger(..).unwrap(): the first statement of Logger::start()
LoggerStart(t) ==
    /\ pc[t] = "idle"
    /\ LET r == SetLogger(logger)
       IN  /\ logger' = r.slot
           /\ IF r.ok
              THEN /\ pc' = [pc EXCEPT ![t] = "start_level"]
                   /\ installs' = installs + 1
                   /\ last' = Result("set_logger", "ok", NoRecord, 0)
              ELSE /\ pc' = pc
                   /\ installs' = installs
                   /\ last' = Result("start", "panic", NoRecord, 0)
    /\ UNCHANGED <<max_level, EVENTS, lock, poisoned, cur, handles, appended,
                   popped, issued, ended>>

\* lib.rs:159-161  pub fn start() -> Logger { Logger::start() }
Start(t) == LoggerStart(t)

\* lib.rs:137-138  set_max_level(Trace); Self {}
StartReturn(t) ==
    /\ pc[t] = "start_level"
    /\ max_level' = SetMaxLevel(max_level)
    /\ handles' = handles \cup {"start"}
    /\ pc' = [pc EXCEPT ![t] = "idle"]
    /\ last' = Result("start", "ok", NoRecord, 0)
    /\ UNCHANGED <<logger, EVENTS, lock, poisoned, cur, appended, popped,
                   issued, installs, ended>>

\* lib.rs:130-131  `pub struct Logger;`: a handle written as the unit value,
\* without start()
LoggerLiteral(t) ==
    /\ pc[t] = "idle"
    /\ "literal" \notin handles
    /\ handles' = handles \cup {"literal"}
    /\ last' = Result("literal", "ok", NoRecord, 0)
    /\ UNCHANGED <<logger, max_level, EVENTS, lock, poisoned, pc, cur,
                   appended, popped, issued, installs, ended>>

----------------------------------------------------------------------------
(* LoggerInternal::log, lib.rs:109-125 *)

\* The log call up to the lock: the macro's filter, enabled(), the visit of
\* the pairs (lib.rs:110-117).
LogCall(t, ev) ==
    /\ pc[t] = "idle"
    /\ IF ~Dispatches(ev)
       THEN /\ last' = Result("log", "dropped", NoRecord, 0)
            /\ UNCHANGED <<pc, cur>>
       ELSE IF ~SinkEnabled(ev.level, ev.target)
       THEN /\ last' = Result("log", "disabled", NoRecord, 0)
            /\ UNCHANGED <<pc, cur>>
       ELSE LET v == Visit(ev.kvs, {})
            IN  IF v.ok
                THEN /\ pc' = [pc EXCEPT ![t] = "log_lock"]
                     /\ cur' = [cur EXCEPT ![t] = [ev |-> ev, pairs |-> v.pairs]]
                     /\ last' = Result("visit", "ok", NoRecord, 0)
                ELSE /\ last' = Result("log", "panic", NoRecord, 0)
                     /\ UNCHANGED <<pc, cur>>
    /\ issued' = IF Started THEN [issued EXCEPT ![t] = Append(@, ev)] ELSE issued
    /\ UNCHANGED <<logger, max_level, EVENTS, lock, poisoned, handles,
                   appended, popped, installs, ended>>

\* lib.rs:118  EVENTS.lock().unwrap()
LogLock(t) ==
    /\ pc[t] = "log_lock"
    /\ lock = "free"
    /\ IF poisoned
       THEN /\ pc' = [pc EXCEPT ![t] = "idle"]
            /\ cur' = [cur EXCEPT ![t] = Idle]
            /\ last' = Result("lock", "panic", NoRecord, 0)
            /\ lock' = lock
       ELSE /\ lock' = t
            /\ pc' = [pc EXCEPT ![t] = "log_push"]
            /\ cur' = cur
            /\ last' = Result("lock", "ok", NoRecord, 0)
    /\ UNCHANGED <<logger, max_level, EVENTS, poisoned, handles, appended,
                   popped, issued, installs, ended>>

\* lib.rs:118-123  push_back(Record { .. }), and the guard dropped.  The
\* Record, and with it the message text, is built after lock() returned.
LogPush(t) ==
    /\ pc[t] = "log_push"
    /\ lock = t
    /\ RenderOutcome(cur[t].ev.args) = "ok"
    /\ LET rec == MakeRecord(cur[t].ev, cur[t].pairs)
       IN  /\ EVENTS' = PushBack(EVENTS, rec)
           /\ appended' = Append(appended, [t |-> t, ev |-> cur[t].ev, rec |-> rec])
           /\ last' = Result("log", "ok", rec, 0)
    /\ lock' = "free"
    /\ pc' = [pc EXCEPT ![t] = "idle"]
    /\ cur' = [cur EXCEPT ![t] = Idle]
    /\ UNCHANGED <<logger, max_level, poisoned, handles, popped, issued, installs,
                   ended>>

\* lib.rs:118-119  format! panics while the guard of lock() is alive: the
\* unwinding drops the guard, which poisons the Mutex; nothing is pushed.
LogRenderPanic(t) ==
    /\ pc[t] = "log_push"
    /\ lock = t
    /\ RenderOutcome(cur[t].ev.args) = "panic"
    /\ lock' = "free"
    /\ poisoned' = TRUE
    /\ pc' = [pc EXCEPT ![t] = "idle"]
    /\ cur' = [cur EXCEPT ![t] = Idle]
    /\ last' = Result("render", "panic", NoRecord, 0)
    /\ UNCHANGED <<logger, max_level, EVENTS, handles, appended, popped,
                   issued, installs, ended>>

\* lib.rs:118-119  format! runs a Display that logs: the inner call enters
\* LoggerInternal::log on the same thread and reaches EVENTS.lock() while
\* this thread holds the lock.  std::sync::Mutex leaves that unspecified but
\* for one thing, that the inner lock() does not return: the thread blocks
\* for ever, or it panics (which unwinds the outer call as well and poisons
\* the Mutex).
LogReentrant(t) ==
    /\ pc[t] = "log_push"
    /\ lock = t
    /\ RenderOutcome(cur[t].ev.args) = "relog"
    /\ \/ /\ pc' = [pc EXCEPT ![t] = "deadlock"]
          /\ last' = Result("relog", "deadlock", NoRecord, 0)
          /\ UNCHANGED <<lock, poisoned, cur>>
       \/ /\ pc' = [pc EXCEPT ![t] = "idle"]
          /\ cur' = [cur EXCEPT ![t] = Idle]
          /\ lock' = "free"
          /\ poisoned' = TRUE
          /\ last' = Result("relog", "panic", NoRecord, 0)
    /\ UNCHANGED <<logger, max_level, EVENTS, handles, appended, popped,
                   issued, installs, ended>>

\* (a variant of flush that empties the queue)
FlushCall_Clear(t) ==
    /\ pc[t] = "idle"
    /\ logger = "LoggerInternal"
    /\ lock = "free"
    /\ EVENTS' = <<>>
    /\ last' = Result("flush", "ok", NoRecord, 0)
    /\ UNCHANGED <<logger, max_level, lock, poisoned, pc, cur, handles,
                   appended, popped, issued, installs, ended>>

\* LoggerInternal::flush (lib.rs:126), reached through log::logger().flush()
FlushCall(t) ==
    /\ pc[t] = "idle"
    /\ logger = "LoggerInternal"
    /\ last' = Result("flush", "ok", NoRecord, 0)
    /\ UNCHANGED <<logger, max_level, EVENTS, lock, poisoned, pc, cur, handles,
                   appended, popped, issued, installs, ended>>

\* log::logger().enabled(..) reaching the installed destination
\* (lib.rs:105-107)
EnabledCall(t, level, target) ==
    /\ pc[t] = "idle"
    /\ logger = "LoggerInternal"
    /\ last' = Result("enabled",
                      IF SinkEnabled(level, target) THEN "true" ELSE "false",
                      NoRecord, 0)
    /\ UNCHANGED <<logger, max_level, EVENTS, lock, poisoned, pc, cur, handles,
                   appended, popped, issued, installs, ended>>

----------------------------------------------------------------------------
(* The handle's operations, lib.rs:141-155 and 163-168.  Each takes the     *)
(* lock, acts and releases it within one expression.                        *)

\* lock().unwrap() on a poisoned Mutex panics
LockPanics == poisoned

\* Logger::pop, lib.rs:143-145
PopAs(t, h, op) ==
    /\ pc[t] = "idle"
    /\ h \in handles
    /\ lock = "free"
    /\ IF LockPanics
       THEN /\ last' = Result(op, "panic", NoRecord, 0)
            /\ UNCHANGED <<EVENTS, popped>>
       ELSE LET r == PopFront(EVENTS)
            IN  /\ EVENTS' = r.rest
                /\ popped' = IF r.some THEN Append(popped, r.rec) ELSE popped
                /\ last' = Result(op, IF r.some THEN "some" ELSE "none", r.rec, 0)
    /\ ended' = IF ended = "no" /\ op = "next" /\ ~LockPanics /\ EVENTS = <<>>
                THEN "yes" ELSE ended
    /\ UNCHANGED <<logger, max_level, lock, poisoned, pc, cur, handles,
                   appended, issued, installs>>

Pop(t, h) == PopAs(t, h, "pop")

\* (a fused variant: once it has returned None it returns None for ever)
IterNext_Fused(t, h) ==
    IF ended = "yes"
    THEN /\ pc[t] = "idle"
         /\ h \in handles
         /\ last' = Result("next", "none", NoRecord, 0)
         /\ UNCHANGED <<logger, max_level, EVENTS, lock, poisoned, pc, cur,
                        handles, appended, popped, issued, ended, installs>>
    ELSE PopAs(t, h, "next")

\* (a variant that reads a copy of the queue and removes nothing)
IterNext_Buffered(t, h) ==
    /\ pc[t] = "idle"
    /\ h \in handles
    /\ lock = "free"
    /\ last' = IF EVENTS = <<>> THEN Result("next", "none", NoRecord, 0)
               ELSE Result("next", "some", Head(EVENTS), 0)
    /\ ended' = IF ended = "no" /\ EVENTS = <<>> THEN "yes" ELSE ended
    /\ UNCHANGED <<logger, max_level, EVENTS, lock, poisoned, pc, cur, handles,
                   appended, popped, issued, installs>>

\* Iterator::next, lib.rs:165-167: self.pop()
IterNext(t, h) == PopAs(t, h, "next")

\* Logger::len, lib.rs:148-150
LoggerLen(t, h) ==
    /\ pc[t] = "idle"
    /\ h \in handles
    /\ lock = "free"
    /\ last' = IF LockPanics THEN Result("len", "panic", NoRecord, 0)
               ELSE Result("len", "ok", NoRecord, QueueLen(EVENTS))
    /\ UNCHANGED <<logger, max_level, EVENTS, lock, poisoned, pc, cur, handles,
                   appended, popped, issued, installs, ended>>

\* Logger::is_empty, lib.rs:153-155
LoggerIsEmpty(t, h) ==
    /\ pc[t] = "idle"
    /\ h \in handles
    /\ lock = "free"
    /\ last' = IF LockPanics THEN Result("is_empty", "panic", NoRecord, 0)
               ELSE Result("is_empty",
                           IF QueueIsEmpty(EVENTS) THEN "true" ELSE "false",
                           NoRecord, 0)
    /\ UNCHANGED <<logger, max_level, EVENTS, lock, poisoned, pc, cur, handles,
                   appended, popped, issued, installs, ended>>

----------------------------------------------------------------------------
(* The operations apart from the log calls *)

Operations ==
    \/ \E t \in Threads : LoggerStart(t)
    \/ \E t \in Threads : Start(t)
    \/ \E t \in Threads : StartReturn(t)
    \/ \E t \in Threads : LoggerLiteral(t)
    \/ \E t \in Threads : LogLock(t)
    \/ \E t \in Threads : LogPush(t)
    \/ \E t \in Threads : \E h \in handles : Pop(t, h)
    \/ \E t \in Threads : \E h \in handles : IterNext(t, h)
    \/ \E t \in Threads : \E h \in handles : LoggerLen(t, h)
    \/ \E t \in Threads : \E h \in handles : LoggerIsEmpty(t, h)

\* Two threads logging the calls of the smoke test, up to MaxLogs captured calls.
LogSmoke ==
    \E t \in Threads : \E ev \in SmokeEvents :
        \/ /\ TotalIssued(Threads) < MaxLogs
           /\ LogCall(t, ev)
        \/ EnabledCall(t, ev.level, ev.target)

Next == Operations \/ LogSmoke

Spec == Init /\ [][Next]_vars

\* Two threads logging at every level, up to MaxLogsWide captured calls.
LogWide ==
    \E t \in Threads : \E ev \in EventSet :
        \/ /\ TotalIssued(Threads) < MaxLogsWide
           /\ LogCall(t, ev)
        \/ EnabledCall(t, ev.level, ev.target)

NextWide == Operations \/ LogWide

SpecWide == Init /\ [][NextWide]_vars

\* The same program with the history of next() kept: whether some next() has
\* returned None so far.
InitIter ==
    /\ logger = "Nop"
    /\ max_level = "Off"
    /\ EVENTS = <<>>
    /\ lock = "free"
    /\ poisoned = FALSE
    /\ pc = [t \in Threads |-> "idle"]
    /\ cur = [t \in Threads |-> Idle]
    /\ handles = {}
    /\ last = Result("init", "ok", NoRecord, 0)
    /\ appended = <<>>
    /\ popped = <<>>
    /\ issued = [t \in Threads |-> <<>>]
    /\ ended = "no"
    /\ installs = 0

LogIter ==
    \E t \in Threads : \E ev \in SmokeEvents :
        \/ /\ TotalIssued(Threads) < MaxLogsIter
           /\ LogCall(t, ev)
        \/ EnabledCall(t, ev.level, ev.target)

NextIter == Operations \/ LogIter

SpecIter == InitIter /\ [][NextIter]_vars

\* Two threads of a host program that breaks the facade's contract, up to
\* MaxLogsFaulty calls handed to the sink.
LogFaulty ==
    \E t \in Threads : \E ev \in FaultyEvents :
        \/ /\ TotalIssued(Threads) < MaxLogsFaulty
           /\ LogCall(t, ev)
        \/ EnabledCall(t, ev.level, ev.target)

NextFaulty ==
    \/ Operations
    \/ LogFaulty
    \/ \E t \in Threads : LogRenderPanic(t)
    \/ \E t \in Threads : LogReentrant(t)
    \/ \E t \in Threads : FlushCall(t)

SpecFaulty == Init /\ [][NextFaulty]_vars

\* The same, with every thread that holds the lock scheduled again: a
\* running thread goes on to the end of its push_back expression.
SpecFaultyFair ==
    /\ SpecFaulty
    /\ \A t \in Threads : /\ WF_vars(LogPush(t))
                          /\ WF_vars(LogRenderPanic(t))
                          /\ WF_vars(LogReentrant(t))

----------------------------------------------------------------------------
(* What the histories say *)

\* The log calls of thread t that have returned: all it issued, less the one
\* it is still inside.
Completed(t) ==
    IF pc[t] \in {"log_lock", "log_push"}
    THEN SubSeq(issued[t], 1, Len(issued[t]) - 1)
    ELSE issued[t]

\* The pushes of thread t, in the order of the queue.
ByThread(t) == SelectSeq(appended, LAMBDA a : a.t = t)

\* Every record captured so far, in the order pop() meets them.
Captured == popped \o EVENTS

\* Record r shows event ev: its text, its level and its target.
Shows(r, ev) ==
    /\ r.args = ev.text
    /\ r.level = ev.level
    /\ r.target = ev.target

----------------------------------------------------------------------------
(* C1 *)

\* C1: when one thread alone has logged N calls after start() returned (the
\* queue was empty before), the queue length is N before any pop, len()
\* returns N, and the records popped so far followed by those still queued
\* are the N calls in the order they were issued.
C1_FifoCapture ==
    \A t \in Threads :
        (/\ pc[t] = "idle"
         /\ \A u \in Threads \ {t} : issued[u] = <<>>)
        => /\ Len(Captured) = Len(issued[t])
           /\ \A i \in 1..Len(issued[t]) :
                  i <= Len(Captured) => Shows(Captured[i], issued[t][i])
           /\ popped = <<>> => QueueLen(EVENTS) = Len(issued[t])
           /\ (last.op = "len" /\ popped = <<>>) => last.n = Len(issued[t])

\* One thread logged hello, world, hello; three pops returned them in that order.
C1_Witness ==
    /\ Len(issued["t1"]) = 3
    /\ issued["t2"] = <<>>
    /\ EVENTS = <<>>
    /\ Len(popped) = 3
    /\ popped[1].args = hello
    /\ popped[2].args = world
    /\ popped[3].args = hello
    /\ last.op = "pop"

----------------------------------------------------------------------------
(* C2 *)

\* C2: once a destination is installed, no later start() installs anything:
\* its set_logger fails, the call panics at that statement, and it returns no
\* handle (the handles and the thread's position are as before); at most one
\* start() ever gets past set_logger.
C2_DoubleInstallFails ==
    [][ /\ logger # "Nop" =>
            /\ last'.op # "set_logger"
            /\ installs' = installs
            /\ logger' = logger
        /\ (last'.op = "start" /\ last'.res = "panic") =>
            /\ logger # "Nop"
            /\ handles' = handles
            /\ pc' = pc
        /\ (last'.op = "start" /\ last'.res = "ok") =>
            /\ installs = 1
            /\ "start" \notin handles
      ]_vars

\* A start() has returned its handle and a later start() has panicked.
C2_Witness ==
    /\ Started
    /\ last.op = "start"
    /\ last.res = "panic"

----------------------------------------------------------------------------
(* C3 *)

\* C3 as stated: start() may be called again and again; a later call skips
\* the registration and still returns a handle, so no start() call fails.
C3_StartIsRepeatable ==
    ~(last.op = "start" /\ last.res = "panic")

\* C3, amended: only the first start() call registers the sink and returns a
\* handle; a later call registers nothing and panics, so that at most one
\* registration and at most one handle made by start() ever exist, and a
\* start() that failed found the sink installed.
C3_OnlyFirstStartReturns ==
    /\ installs <= 1
    /\ installs = (IF logger = "Nop" THEN 0 ELSE 1)
    /\ Cardinality({t \in Threads : pc[t] = "start_level"})
         + (IF Started THEN 1 ELSE 0) = installs
    /\ (last.op = "start" /\ last.res = "panic") => installs = 1

\* A later start() has panicked while the records captured through the first
\* one are still queued.
C3_Witness ==
    /\ Started
    /\ installs = 1
    /\ last.op = "start"
    /\ last.res = "panic"
    /\ Len(EVENTS) = 2

----------------------------------------------------------------------------
(* C4 *)

\* C4: the queue is empty exactly when its length is 0, is_empty() and len()
\* report just that, and once as many records were popped as were appended
\* the queue is empty and its length is 0.
C4_EmptyIffLenZero ==
    /\ QueueIsEmpty(EVENTS) <=> (QueueLen(EVENTS) = 0)
    /\ last.op = "is_empty" => ((last.res = "true") <=> (QueueLen(EVENTS) = 0))
    /\ last.op = "len" => ((last.n = 0) <=> QueueIsEmpty(EVENTS))
    /\ Len(popped) = Len(appended) =>
           /\ QueueIsEmpty(EVENTS)
           /\ QueueLen(EVENTS) = 0

\* Two records were captured, both were popped, and is_empty() said true.
C4_Witness ==
    /\ Len(appended) = 2
    /\ Len(popped) = 2
    /\ last.op = "is_empty"
    /\ last.res = "true"

----------------------------------------------------------------------------
(* C5 *)

\* C5: a pop() on a non-empty queue returns the oldest record and leaves the
\* others in their order, one fewer; a pop() on an empty queue returns None,
\* does not panic, and leaves the queue empty.
C5_PopOldestOrNone ==
    [][ last'.op = "pop" =>
            IF EVENTS # <<>>
            THEN /\ last'.res = "some"
                 /\ last'.rec = EVENTS[1]
                 /\ EVENTS' = Tail(EVENTS)
                 /\ QueueLen(EVENTS') = QueueLen(EVENTS) - 1
            ELSE /\ last'.res = "none"
                 /\ EVENTS' = <<>>
      ]_vars

\* hello and world were queued; pop() returned hello and world is what is left.
C5_Witness ==
    /\ last.op = "pop"
    /\ last.res = "some"
    /\ last.rec.args = hello
    /\ Len(EVENTS) = 1
    /\ EVENTS[1].args = world

----------------------------------------------------------------------------
(* C6 *)

\* C6: with several threads logging, there is exactly one record per log
\* call that has returned, and the records of each thread stand in the queue
\* in the order that thread issued its calls; len() counts them all.
C6_PerThreadOrder ==
    /\ \A t \in Threads :
           /\ Len(ByThread(t)) = Len(Completed(t))
           /\ \A i \in 1..Len(ByThread(t)) :
                  i <= Len(Completed(t)) => Shows(ByThread(t)[i].rec, Completed(t)[i])
    /\ Len(Captured) = Len(appended)
    /\ \A i \in 1..Len(appended) :
           i <= Len(Captured) => Captured[i] = appended[i].rec
    /\ (last.op = "len" /\ popped = <<>>) =>
           last.n = Len(Completed("t1")) + Len(Completed("t2"))

\* Two threads logged hello then world each, interleaved; len() returned 4.
C6_Witness ==
    /\ Len(appended) = 4
    /\ appended[1].t = "t1"
    /\ appended[2].t = "t2"
    /\ appended[3].t = "t2"
    /\ appended[4].t = "t1"
    /\ \A t \in Threads : issued[t] # <<>> /\ issued[t][1].text = hello
    /\ \A t \in Threads : Len(issued[t]) = 2 /\ issued[t][2].text = world
    /\ last.op = "len"
    /\ last.n = 4

----------------------------------------------------------------------------
(* C7 *)

\* C7: whatever handles pop and whatever threads append, the records
\* appended so far are exactly the records returned by pops so far, followed
\* by the records still queued: none lost, none returned twice.
C7_NoLossNoDuplication ==
    /\ Len(appended) = Len(popped) + QueueLen(EVENTS)
    /\ \A i \in 1..Len(appended) :
           /\ i <= Len(popped) => popped[i] = appended[i].rec
           /\ (i > Len(popped) /\ i - Len(popped) <= Len(EVENTS)) =>
                  EVENTS[i - Len(popped)] = appended[i].rec

\* Two handles exist, two records were popped, one is queued, and a thread
\* holds the lock for the next append.
C7_Witness ==
    /\ handles = {"start", "literal"}
    /\ Len(popped) = 2
    /\ Len(EVENTS) = 1
    /\ \E t \in Threads : pc[t] = "log_push"
    /\ last.op = "lock"

----------------------------------------------------------------------------
(* C8 *)

\* C8: enabled() answers true for every level and target; the sink turns no
\* event away; and the push that ends a log call adds exactly one record, at
\* the back, with the level and the target of the event handled.
C8_NoFiltering ==
    [][ /\ last'.op = "enabled" => last'.res = "true"
        /\ last'.op = "log" => last'.res # "disabled"
        /\ (logger = "LoggerInternal" /\ max_level = "Trace" /\ last'.op = "log")
              => last'.res = "ok"
        /\ \A t \in Threads :
              (pc[t] = "log_lock" /\ pc'[t] # "log_lock") => pc'[t] = "log_push"
        /\ \A t \in Threads :
              (pc[t] = "log_push" /\ pc'[t] # "log_push") =>
                  /\ Len(EVENTS') = Len(EVENTS) + 1
                  /\ SubSeq(EVENTS', 1, Len(EVENTS)) = EVENTS
                  /\ EVENTS'[Len(EVENTS')].level = cur[t].ev.level
                  /\ EVENTS'[Len(EVENTS')].target = cur[t].ev.target
      ]_vars

\* A Trace event of target db was appended behind an Error event.
C8_Witness ==
    /\ Len(EVENTS) = 2
    /\ EVENTS[1].level = "Error"
    /\ EVENTS[2].level = "Trace"
    /\ EVENTS[2].target = db
    /\ last.op = "log"
    /\ last.res = "ok"

----------------------------------------------------------------------------
(* C9 *)

\* C9: once a start() has returned, the sink is the installed destination
\* and the threshold is Trace; no log call is discarded from then on, and
\* every call issued from then on that has returned left one record.
C9_StartedCapturesAll ==
    /\ Started =>
           /\ logger = "LoggerInternal"
           /\ max_level = "Trace"
           /\ ~(last.op = "log" /\ last.res = "dropped")
    /\ \A t \in Threads : Len(ByThread(t)) = Len(Completed(t))
    /\ \A i \in 1..Len(appended) : appended[i].rec.level = appended[i].ev.level

\* After start() returned, a Debug call and a Trace call were captured.
C9_Witness ==
    /\ Started
    /\ Len(EVENTS) = 2
    /\ EVENTS[1].level = "Debug"
    /\ EVENTS[2].level = "Trace"
    /\ last.op = "len"
    /\ last.n = 2

----------------------------------------------------------------------------
(* C10 *)

\* C10: every record, queued or popped, shows the text, the level and the
\* target of the event it was made from, whatever was appended or popped
\* since; and the record pop() returns is the one made from the oldest event.
C10_RecordFidelity ==
    /\ \A i \in 1..Len(appended) :
           i <= Len(Captured) => Shows(Captured[i], appended[i].ev)
    /\ (last.op = "pop" /\ last.res = "some") =>
           /\ popped # <<>>
           /\ Len(popped) <= Len(appended)
           /\ last.rec = popped[Len(popped)]
           /\ Shows(last.rec, appended[Len(popped)].ev)

\* The Error call "hello" + 7 was popped as hello7, target db, with a later
\* record still queued.
C10_Witness ==
    /\ last.op = "pop"
    /\ last.res = "some"
    /\ last.rec.args = hello \o <<"7">>
    /\ last.rec.level = "Error"
    /\ last.rec.target = db
    /\ Len(EVENTS) = 1

----------------------------------------------------------------------------
(* C11 *)

\* The pairs of event ev that no later pair of ev overrides, rendered.
LastPairs(ev) ==
    { <<ev.kvs[i].key, ValueToString(ev.kvs[i].val)>> :
        i \in { i \in DOMAIN ev.kvs :
                  \A j \in DOMAIN ev.kvs : j > i => ev.kvs[j].key # ev.kvs[i].key } }

\* C11: the key_values of every record, queued or popped, hold one entry for
\* each distinct key of its event, whose value is the rendering of the last
\* pair with that key (a string with its quote marks), and nothing else: no
\* pair of an event logged before.
C11_StructuredFields ==
    \A i \in 1..Len(appended) :
        i <= Len(Captured) =>
            LET r == Captured[i]
                ev == appended[i].ev
            IN  /\ r.key_values = LastPairs(ev)
                /\ Cardinality(r.key_values)
                     = Cardinality({ev.kvs[j].key : j \in DOMAIN ev.kvs})
                /\ ev.kvs = <<>> => r.key_values = {}
                /\ ev.kvs = <<Pair(color, ArgStr(blue))>> =>
                       r.key_values = {<<color, <<"\"", "b", "l", "u", "e", "\"">>>>}
                /\ ev.kvs = <<Pair(color, ArgInt(1)), Pair(color, ArgInt(2))>> =>
                       r.key_values = {<<color, <<"2">>>>}

\* A call with color = 1, color = 2 was captured with color = "2" alone, and
\* the call without pairs logged after it has no pairs.
C11_Witness ==
    /\ Len(appended) = 2
    /\ Len(EVENTS) = 2
    /\ appended[1].ev.kvs = <<Pair(color, ArgInt(1)), Pair(color, ArgInt(2))>>
    /\ EVENTS[1].key_values = {<<color, <<"2">>>>}
    /\ appended[2].ev.kvs = <<>>
    /\ EVENTS[2].key_values = {}

----------------------------------------------------------------------------
(* C12 *)

\* C12: pop(), len() and is_empty() never panic, whatever happened before:
\* a log call that aborted on its pairs or while rendering, a start() that
\* failed.
C12_QueriesInfallible ==
    ~(last.op \in {"pop", "len", "is_empty"} /\ last.res = "panic")

----------------------------------------------------------------------------
(* C13 *)

\* C13: a next() step does to the shared queue what pop() does: on an empty
\* queue it signals the end and changes nothing; otherwise it returns the
\* oldest record and that record is gone from the queue every handle reads.
C13_NextIsPop ==
    [][ last'.op = "next" =>
          IF EVENTS = <<>>
          THEN last'.res = "none" /\ last'.rec = NoRecord /\ EVENTS' = <<>>
               /\ popped' = popped
          ELSE last'.res = "some" /\ last'.rec = Head(EVENTS)
               /\ EVENTS' = Tail(EVENTS)
               /\ popped' = Append(popped, Head(EVENTS)) ]_vars

C13_Witness ==
    /\ last.op = "next" /\ last.res = "some"
    /\ Len(appended) = 3 /\ Len(popped) = 2 /\ Len(EVENTS) = 1
    /\ last.rec = appended[2].rec
    /\ EVENTS[1] = appended[3].rec

----------------------------------------------------------------------------
(* C14 *)

\* C14: the queue lock never causes a deadlock: no thread waits for ever on
\* a lock it holds itself, and a log call made from inside the rendering of
\* another log call's message completes instead of blocking or panicking.
C14_ReentrantLogCompletes ==
    /\ \A t \in Threads : pc[t] # "deadlock"
    /\ ~(last.op = "relog" /\ last.res \in {"deadlock", "panic"})

----------------------------------------------------------------------------
(* C15 *)

\* C15: the destination slot is a two-state machine.  Its only transition is
\* from unset to installed, taken by a set_logger that succeeded; an
\* installed slot never changes again; a start() attempt wins exactly when
\* the slot was unset, so of the start() calls racing each other exactly one
\* installs and every other one fails.
C15_InstallOnce ==
    [][ /\ logger \in {"Nop", "LoggerInternal"}
        /\ logger = "LoggerInternal" => logger' = "LoggerInternal"
        /\ logger' # logger => last'.op = "set_logger" /\ installs = 0
        /\ (last'.op = "set_logger" /\ last' # last) =>
              logger = "Nop" /\ logger' = "LoggerInternal" /\ installs' = 1
        /\ (last'.op = "start" /\ last'.res = "panic" /\ last' # last) =>
              logger = "LoggerInternal" /\ installs' = 1
      ]_vars

\* Two start() calls in flight at once: one is past set_logger and has yet
\* to return, the other has just failed.
C15_Witness ==
    /\ ~Started
    /\ \E t \in Threads : pc[t] = "start_level"
    /\ last.op = "start" /\ last.res = "panic"
    /\ installs = 1
    /\ logger = "LoggerInternal"

----------------------------------------------------------------------------
(* C16 *)

\* The event's source of pairs reports an error somewhere in its traversal.
KvFails(ev) == \E i \in DOMAIN ev.kvs : ev.kvs[i].kind = "err"

\* C16: a log call whose key-value traversal fails panics before it touches
\* the queue: the step leaves the queue, the lock and the poison flag as they
\* were, and no record of such a call, complete or partial, is ever queued or
\* about to be queued.
C16_KvFailureAppendsNothing ==
    [][ /\ \A i \in 1..Len(appended) : ~KvFails(appended[i].ev)
        /\ \A t \in Threads : pc[t] # "idle" => ~KvFails(cur[t].ev)
        /\ \A i \in 1..Len(EVENTS) :
              \E j \in 1..Len(appended) : EVENTS[i] = appended[j].rec
        /\ \A t \in Threads :
              (issued'[t] # issued[t] /\ KvFails(issued'[t][Len(issued'[t])])) =>
                 /\ last'.op = "log" /\ last'.res = "panic"
                 /\ UNCHANGED <<EVENTS, appended, popped, lock, poisoned, pc, cur>>
      ]_vars

\* A call with a failing source has just panicked; the record queued before
\* it is still the whole queue, and the lock is usable.
C16_Witness ==
    /\ last.op = "log" /\ last.res = "panic"
    /\ \E t \in Threads :
          issued[t] # <<>> /\ KvFails(issued[t][Len(issued[t])])
    /\ Len(appended) = 1
    /\ EVENTS = <<appended[1].rec>>
    /\ ~poisoned
    /\ lock = "free"

----------------------------------------------------------------------------
(* C17 *)

\* C17: len(), is_empty(), enabled() and flush() leave the queue as it was,
\* and the queue changes in two ways only: a log call appends one record at
\* the back, or a pop()/next() removes the record at the front.
C17_Frame ==
    [][ /\ last'.op \in {"len", "is_empty", "enabled", "flush"} =>
              EVENTS' = EVENTS
        /\ EVENTS' # EVENTS =>
              \/ /\ last'.op = "log" /\ last'.res = "ok"
                 /\ EVENTS' = Append(EVENTS, last'.rec)
              \/ /\ last'.op \in {"pop", "next"} /\ last'.res = "some"
                 /\ EVENTS # <<>>
                 /\ EVENTS' = Tail(EVENTS)
      ]_vars

\* flush() has just run on a queue of two records, none popped yet.
C17_Witness ==
    /\ last.op = "flush"
    /\ Len(EVENTS) = 2
    /\ popped = <<>>
    /\ \A i \in 1..2 : EVENTS[i] = appended[i].rec

----------------------------------------------------------------------------
(* C19 *)

\* C19: a start() that fails changes nothing: the destination, the
\* threshold, the queue and its lock, the handles and every call in progress
\* are as before it; so what was captured stays queued in order, and, once a
\* start() has returned, the sink stays installed at threshold Trace whatever
\* start() calls fail later.
C19_FailedStartChangesNothing ==
    [][ /\ (last'.op = "start" /\ last'.res = "panic") =>
              UNCHANGED <<logger, max_level, EVENTS, lock, poisoned, pc, cur,
                          handles, appended, popped, issued, installs, ended>>
        /\ Started => logger = "LoggerInternal" /\ max_level = "Trace"
        /\ Started => Started'
      ]_vars

\* A start() has just failed while one captured record was already popped,
\* one is still queued and a further log call is on its way to the queue.
C19_Witness ==
    /\ last.op = "start" /\ last.res = "panic"
    /\ Len(popped) = 1
    /\ Len(appended) = 2
    /\ EVENTS = <<appended[2].rec>>
    /\ \E t \in Threads : pc[t] = "log_lock"

----------------------------------------------------------------------------
(* C20 *)

\* C20: the end signal of next() is not sticky: once a next() has returned
\* None, a next() that finds the queue non-empty again returns the oldest
\* record and removes it, and one that finds it empty returns None again.
C20_NotFused ==
    [][ (ended = "yes" /\ last'.op = "next") =>
            IF EVENTS = <<>>
            THEN last'.res = "none" /\ EVENTS' = <<>>
            ELSE /\ last'.res = "some"
                 /\ last'.rec = Head(EVENTS)
                 /\ EVENTS' = Tail(EVENTS)
      ]_vars

\* The one handle there is has signalled the end, and its next() has then
\* returned the only record ever appended: that record came after the end.
C20_Witness ==
    /\ ended = "yes"
    /\ handles = {"start"}
    /\ last.op = "next" /\ last.res = "some"
    /\ Len(appended) = 1
    /\ last.rec = appended[1].rec
    /\ popped = <<appended[1].rec>>
    /\ EVENTS = <<>>

----------------------------------------------------------------------------
(* C18 *)

\* C18: draining terminates.  Every next() either yields the oldest record,
\* shortening the queue by one, or signals the end on the empty queue, so
\* that a queue of n records is drained by n calls and the call after them
\* ends the iteration; and whoever waits for the lock gets it: a lock that is
\* held is released, so no pop(), len() or is_empty() waits for ever.
C18_DrainingTerminates ==
    /\ [][ last'.op = "next" =>
             IF EVENTS = <<>>
             THEN last'.res = "none" /\ EVENTS' = <<>>
             ELSE last'.res = "some" /\ Len(EVENTS') = Len(EVENTS) - 1 ]_vars
    /\ (lock # "free") ~> (lock = "free")

====
